---- MODULE Spec2Model ----
(***************************************************************************)
(* Model of the kamel-render backend: capability negotiation (Layers and   *)
(* Extensions), physical-device selection, queue-family classification,    *)
(* surface-format selection and the initialize sequence.                   *)
(*                                                                         *)
(* Conventions: an Option<T> is a sequence of length 0 (None) or 1         *)
(* (Some(x)).  A C string is a TLA+ string; libc::strcmp(a, b) == 0 is     *)
(* a = b.  A Vec is a sequence, index 0 of the code is index 1 here.       *)
(***************************************************************************)
EXTENDS Integers, Sequences, FiniteSets, TLC

VARIABLES
    layers,                  \* instance.rs Layers {supported, enabled, khronos_validation}
    extensions,              \* instance.rs Extensions {supported, enabled, 3 flags}
    device_extensions,       \* device.rs Extensions {supported, enabled, 3 flags}
    call,                    \* the last try_push / push call and what it returned
    physical_devices,        \* Instance.physical_devices with the driver's properties
    physical_device,         \* result of find_optimal_physical_device
    queue_family_properties, \* QueueFamilyProperties of the selected device
    device_queues,           \* what Device::new derived from the queue families
    supported_formats,       \* SurfaceFormats.supported_formats
    used_surface_format,     \* result of the format selection of Swapchain::new
    instance_version,        \* what try_enumerate_instance_version returned
    api_version,             \* properties.properties.api_version of the device
    pc,                      \* the step initialize is at
    error,                   \* the failure that ended initialize, and its step
    present_modes,           \* Swapchain.present_modes
    vsync_enabled,           \* Swapchain.vsync_enabled
    used_present_mode,       \* Swapchain.used_present_mode
    debug_utils_messenger,   \* Instance.debug_utils_messenger
    strong,                  \* the strong count of the Arc of each component
    held,                    \* the components the host holds an Arc of
    calls                    \* the calls made on the driver and on the callbacks, in order

vars == <<layers, extensions, device_extensions, call, physical_devices,
          physical_device, queue_family_properties, device_queues,
          supported_formats, used_surface_format, instance_version,
          api_version, pc, error, present_modes, vsync_enabled, used_present_mode,
          debug_utils_messenger, strong, held, calls>>

capvars == <<layers, extensions, device_extensions, call>>
physvars == <<physical_devices, physical_device>>
queuevars == <<queue_family_properties, device_queues>>
formatvars == <<supported_formats, used_surface_format, present_modes, vsync_enabled,
                used_present_mode>>
initvars == <<instance_version, api_version, pc, error>>
lifevars == <<debug_utils_messenger, strong, held, calls>>

None == <<>>
Some(x) == <<x>>

\* Option::or_else
or_else(opt, other) == IF opt # None THEN opt ELSE other

\* Option::unwrap_or
unwrap_or(opt, default) == IF opt # None THEN opt[1] ELSE default

\* The null handle (vk::PhysicalDevice::null(), vk::DebugUtilsMessengerEXT::null()).
NULL == 0

\* The four components; each is handed out as an Arc.
Components == {"Instance", "Surface", "Device", "Swapchain"}

(***************************************************************************)
(* Bounds of the model.                                                    *)
(***************************************************************************)
MaxSupported == 2
MaxDevices == 2
MaxHeaps == 2
MaxFormats == 3
MaxFamilies == 2
MaxQueueCount == 2
MaxMajor == 2
MaxMinor == 2
MaxPatch == 1

(***************************************************************************)
(* Well-known names.                                                       *)
(***************************************************************************)
KHRONOS_VALIDATION == "VK_LAYER_KHRONOS_validation"
DebugUtils_name == "VK_EXT_debug_utils"
GetSurfaceCapabilities2_name == "VK_KHR_get_surface_capabilities2"
Surface_name == "VK_KHR_surface"
PORTABILITY_SUBSET == "VK_KHR_portability_subset"
Swapchain_name == "VK_KHR_swapchain"
MeshShader_name == "VK_NV_mesh_shader"

\* The names a driver may report and a caller may ask for; each universe holds
\* the well-known names of its set and one name the code has no flag for.
LayerNames == <<KHRONOS_VALIDATION, "VK_LAYER_LUNARG_api_dump">>
InstanceExtensionNames ==
    <<DebugUtils_name, GetSurfaceCapabilities2_name, Surface_name, "VK_KHR_xcb_surface">>
DeviceExtensionNames ==
    <<PORTABILITY_SUBSET, Swapchain_name, MeshShader_name, "VK_KHR_maintenance1">>

Range(s) == {s[i] : i \in 1..Len(s)}

\* The subsequence of s at the positions in keep, in the order of s.
RECURSIVE SelectAt(_, _, _)
SelectAt(s, keep, i) ==
    IF i > Len(s) THEN <<>>
    ELSE IF i \in keep THEN <<s[i]>> \o SelectAt(s, keep, i + 1)
    ELSE SelectAt(s, keep, i + 1)

\* What the driver may enumerate: any at most max of the names, in the
\* driver's order.
SupportedLists(names, max) ==
    {SelectAt(names, keep, 1) : keep \in {k \in SUBSET (1..Len(names)) : Cardinality(k) <= max}}

(***************************************************************************)
(* instance.rs: Layers                                                     *)
(***************************************************************************)
Layers_new(supported) ==
    [supported |-> supported, enabled |-> <<>>, khronos_validation |-> FALSE]

Layers_is_supported(self, name) ==
    \E i \in 1..Len(self.supported) : self.supported[i] = name

Layers_is_enabled(self, name) ==
    \E i \in 1..Len(self.enabled) : self.enabled[i] = name

\* Layers::try_push without the is_enabled test.
Layers_try_push_no_enabled_test(self, name) ==
    IF ~Layers_is_supported(self, name)
    THEN [self |-> self, ret |-> FALSE]
    ELSE [self |-> [self EXCEPT !.enabled = Append(@, name),
                                !.khronos_validation =
                                    IF name = KHRONOS_VALIDATION THEN TRUE ELSE @],
          ret |-> TRUE]

Layers_try_push(self, name) ==
    IF ~Layers_is_supported(self, name) \/ Layers_is_enabled(self, name)
    THEN [self |-> self, ret |-> FALSE]
    ELSE [self |-> [self EXCEPT !.enabled = Append(@, name),
                                !.khronos_validation =
                                    IF name = KHRONOS_VALIDATION THEN TRUE ELSE @],
          ret |-> TRUE]

\* assert!(self.try_push(name)): panicked when try_push returned false.
Layers_push(self, name) ==
    LET r == Layers_try_push(self, name)
    IN  [self |-> r.self, panicked |-> ~r.ret]

(***************************************************************************)
(* instance.rs: Extensions                                                 *)
(***************************************************************************)
Extensions_new(supported) ==
    [supported |-> supported, enabled |-> <<>>,
     ext_debug_utils |-> FALSE,
     khr_get_surface_capabilities2 |-> FALSE,
     khr_surface |-> FALSE]

Extensions_is_supported(self, name) ==
    \E i \in 1..Len(self.supported) : self.supported[i] = name

Extensions_is_enabled(self, name) ==
    \E i \in 1..Len(self.enabled) : self.enabled[i] = name

\* Extensions::try_push pushing at the front and answering true when the name
\* is already enabled.
Extensions_try_push_front(self, name) ==
    IF ~Extensions_is_supported(self, name)
    THEN [self |-> self, ret |-> FALSE]
    ELSE IF Extensions_is_enabled(self, name)
    THEN [self |-> self, ret |-> TRUE]
    ELSE [self |-> [self EXCEPT
                        !.enabled = <<name>> \o @,
                        !.ext_debug_utils = IF name = DebugUtils_name THEN TRUE ELSE @,
                        !.khr_get_surface_capabilities2 =
                            IF name # DebugUtils_name /\ name = GetSurfaceCapabilities2_name
                            THEN TRUE ELSE @,
                        !.khr_surface =
                            IF name # DebugUtils_name /\ name # GetSurfaceCapabilities2_name
                               /\ name = Surface_name
                            THEN TRUE ELSE @],
          ret |-> TRUE]

Extensions_try_push(self, name) ==
    IF ~Extensions_is_supported(self, name) \/ Extensions_is_enabled(self, name)
    THEN [self |-> self, ret |-> FALSE]
    ELSE [self |-> [self EXCEPT
                        !.enabled = Append(@, name),
                        !.ext_debug_utils = IF name = DebugUtils_name THEN TRUE ELSE @,
                        !.khr_get_surface_capabilities2 =
                            IF name # DebugUtils_name /\ name = GetSurfaceCapabilities2_name
                            THEN TRUE ELSE @,
                        !.khr_surface =
                            IF name # DebugUtils_name /\ name # GetSurfaceCapabilities2_name
                               /\ name = Surface_name
                            THEN TRUE ELSE @],
          ret |-> TRUE]

Extensions_push(self, name) ==
    LET r == Extensions_try_push(self, name)
    IN  [self |-> r.self, panicked |-> ~r.ret]

(***************************************************************************)
(* device.rs: Extensions                                                   *)
(***************************************************************************)
DeviceExtensions_new(supported) ==
    [supported |-> supported, enabled |-> <<>>,
     khr_portability_subset |-> FALSE,
     khr_swapchain |-> FALSE,
     nv_mesh_shader |-> FALSE]

DeviceExtensions_is_supported(self, name) ==
    \E i \in 1..Len(self.supported) : self.supported[i] = name

DeviceExtensions_is_enabled(self, name) ==
    \E i \in 1..Len(self.enabled) : self.enabled[i] = name

\* device Extensions::try_push that forgets the mesh-shader flag.
DeviceExtensions_try_push_no_mesh_flag(self, name) ==
    IF ~DeviceExtensions_is_supported(self, name) \/ DeviceExtensions_is_enabled(self, name)
    THEN [self |-> self, ret |-> FALSE]
    ELSE [self |-> [self EXCEPT
                        !.enabled = Append(@, name),
                        !.khr_portability_subset =
                            IF name = PORTABILITY_SUBSET THEN TRUE ELSE @,
                        !.khr_swapchain =
                            IF name # PORTABILITY_SUBSET /\ name = Swapchain_name
                            THEN TRUE ELSE @],
          ret |-> TRUE]

DeviceExtensions_try_push(self, name) ==
    IF ~DeviceExtensions_is_supported(self, name) \/ DeviceExtensions_is_enabled(self, name)
    THEN [self |-> self, ret |-> FALSE]
    ELSE [self |-> [self EXCEPT
                        !.enabled = Append(@, name),
                        !.khr_portability_subset =
                            IF name = PORTABILITY_SUBSET THEN TRUE ELSE @,
                        !.khr_swapchain =
                            IF name # PORTABILITY_SUBSET /\ name = Swapchain_name
                            THEN TRUE ELSE @,
                        !.nv_mesh_shader =
                            IF name # PORTABILITY_SUBSET /\ name # Swapchain_name
                               /\ name = MeshShader_name
                            THEN TRUE ELSE @],
          ret |-> TRUE]

DeviceExtensions_push(self, name) ==
    LET r == DeviceExtensions_try_push(self, name)
    IN  [self |-> r.self, panicked |-> ~r.ret]

(***************************************************************************)
(* The parts of the state a specification does not exercise stay as        *)
(* constructed.                                                            *)
(***************************************************************************)
NoCall == [set |-> "none", op |-> "none", name |-> "", ret |-> FALSE, panicked |-> FALSE]

IdleCaps ==
    /\ layers = Layers_new(<<>>)
    /\ extensions = Extensions_new(<<>>)
    /\ device_extensions = DeviceExtensions_new(<<>>)
    /\ call = NoCall

NoQueues == [result |-> "none", direct |-> 0, compute |-> 0, transfer |-> 0,
             create_infos |-> <<>>]

NoDevice == [state |-> "none", handle |-> 0]

IdlePhys == physical_devices = <<>> /\ physical_device = NoDevice
IdleQueues == queue_family_properties = <<>> /\ device_queues = NoQueues
NoFormat == [state |-> "none", value |-> None]

NoPresentMode == "none"

IdlePresent ==
    present_modes = <<>> /\ vsync_enabled = FALSE /\ used_present_mode = NoPresentMode

IdleFormats ==
    /\ supported_formats = <<>> /\ used_surface_format = NoFormat
    /\ IdlePresent

NoArcs == [c \in Components |-> 0]

IdleLife ==
    /\ debug_utils_messenger = NULL /\ strong = NoArcs /\ held = {} /\ calls = <<>>

NotQueried == [state |-> "none", value |-> None]

NoError == [kind |-> "none", at |-> "none"]

IdleInit ==
    /\ instance_version = NotQueried /\ api_version = NotQueried
    /\ pc = "idle" /\ error = NoError

(***************************************************************************)
(* SpecCaps: the two negotiation windows.  Instance::new queries Layers    *)
(* and Extensions and hands them to its callback, which makes any sequence *)
(* of try_push and push calls on them; the Instance then owns them and     *)
(* they change no more.  Device::new queries the device Extensions and     *)
(* hands them to its callback likewise.  A failed assert! of push unwinds: *)
(* no call follows it.                                                     *)
(***************************************************************************)
InitCaps ==
    /\ layers \in {Layers_new(s) : s \in SupportedLists(LayerNames, MaxSupported)}
    /\ extensions \in
         {Extensions_new(s) : s \in SupportedLists(InstanceExtensionNames, MaxSupported)}
    /\ device_extensions = DeviceExtensions_new(<<>>)
    /\ call = NoCall
    /\ instance_version = NotQueried /\ api_version = NotQueried
    /\ pc = "instance_negotiation" /\ error = NoError
    /\ IdlePhys /\ IdleQueues /\ IdleFormats /\ IdleLife

CallLayersTryPush(name) ==
    /\ pc = "instance_negotiation" /\ ~call.panicked
    /\ LET r == Layers_try_push(layers, name)
       IN  /\ layers' = r.self
           /\ call' = [set |-> "Layers", op |-> "try_push", name |-> name,
                       ret |-> r.ret, panicked |-> FALSE]
    /\ UNCHANGED <<extensions, device_extensions, physvars, queuevars, formatvars, initvars, lifevars>>

CallLayersPush(name) ==
    /\ pc = "instance_negotiation" /\ ~call.panicked
    /\ LET r == Layers_push(layers, name)
       IN  /\ layers' = r.self
           /\ call' = [set |-> "Layers", op |-> "push", name |-> name,
                       ret |-> ~r.panicked, panicked |-> r.panicked]
    /\ UNCHANGED <<extensions, device_extensions, physvars, queuevars, formatvars, initvars, lifevars>>

CallExtensionsTryPush(name) ==
    /\ pc = "instance_negotiation" /\ ~call.panicked
    /\ LET r == Extensions_try_push(extensions, name)
       IN  /\ extensions' = r.self
           /\ call' = [set |-> "Extensions", op |-> "try_push", name |-> name,
                       ret |-> r.ret, panicked |-> FALSE]
    /\ UNCHANGED <<layers, device_extensions, physvars, queuevars, formatvars, initvars, lifevars>>

CallExtensionsPush(name) ==
    /\ pc = "instance_negotiation" /\ ~call.panicked
    /\ LET r == Extensions_push(extensions, name)
       IN  /\ extensions' = r.self
           /\ call' = [set |-> "Extensions", op |-> "push", name |-> name,
                       ret |-> ~r.panicked, panicked |-> r.panicked]
    /\ UNCHANGED <<layers, device_extensions, physvars, queuevars, formatvars, initvars, lifevars>>

\* Device::new line 298: the instance negotiation returned, the device
\* extensions are queried.
BeginDeviceNegotiation ==
    /\ pc = "instance_negotiation" /\ ~call.panicked
    /\ pc' = "device_negotiation"
    /\ device_extensions' \in
         {DeviceExtensions_new(s) : s \in SupportedLists(DeviceExtensionNames, MaxSupported)}
    /\ call' = NoCall
    /\ UNCHANGED <<layers, extensions, physvars, queuevars, formatvars,
                   instance_version, api_version, error, lifevars>>

CallDeviceExtensionsTryPush(name) ==
    /\ pc = "device_negotiation" /\ ~call.panicked
    /\ LET r == DeviceExtensions_try_push(device_extensions, name)
       IN  /\ device_extensions' = r.self
           /\ call' = [set |-> "DeviceExtensions", op |-> "try_push", name |-> name,
                       ret |-> r.ret, panicked |-> FALSE]
    /\ UNCHANGED <<layers, extensions, physvars, queuevars, formatvars, initvars, lifevars>>

CallDeviceExtensionsPush(name) ==
    /\ pc = "device_negotiation" /\ ~call.panicked
    /\ LET r == DeviceExtensions_push(device_extensions, name)
       IN  /\ device_extensions' = r.self
           /\ call' = [set |-> "DeviceExtensions", op |-> "push", name |-> name,
                       ret |-> ~r.panicked, panicked |-> r.panicked]
    /\ UNCHANGED <<layers, extensions, physvars, queuevars, formatvars, initvars, lifevars>>

NextCaps ==
    \/ \E name \in Range(LayerNames) : CallLayersTryPush(name)
    \/ \E name \in Range(LayerNames) : CallLayersPush(name)
    \/ \E name \in Range(InstanceExtensionNames) : CallExtensionsTryPush(name)
    \/ \E name \in Range(InstanceExtensionNames) : CallExtensionsPush(name)
    \/ BeginDeviceNegotiation
    \/ \E name \in Range(DeviceExtensionNames) : CallDeviceExtensionsTryPush(name)
    \/ \E name \in Range(DeviceExtensionNames) : CallDeviceExtensionsPush(name)

SpecCaps == InitCaps /\ [][NextCaps]_vars

(***************************************************************************)
(* Claims about the capability sets, checked under SpecCaps.               *)
(***************************************************************************)
NoDuplicates(s) == \A i, j \in 1..Len(s) : i # j => s[i] # s[j]

IsPrefix(s, t) == Len(s) <= Len(t) /\ \A i \in 1..Len(s) : s[i] = t[i]

\* C7: in each of the three capability sets (instance Layers, instance
\* Extensions, device Extensions), after any sequence of try_push and push
\* calls on the freshly queried set, every enabled name is a supported name and
\* no name occurs twice in enabled.
C7_EnabledSubsetNoDuplicates ==
    /\ Range(layers.enabled) \subseteq Range(layers.supported)
    /\ NoDuplicates(layers.enabled)
    /\ Range(extensions.enabled) \subseteq Range(extensions.supported)
    /\ NoDuplicates(extensions.enabled)
    /\ Range(device_extensions.enabled) \subseteq Range(device_extensions.supported)
    /\ NoDuplicates(device_extensions.enabled)

\* C7 witness: two names are enabled and a try_push of one of them, or of a
\* name the driver does not support, has just been refused.
C7_Witness ==
    /\ call.set = "Extensions" /\ call.op = "try_push" /\ ~call.ret
    /\ Len(extensions.enabled) = 2
    /\ call.name \in Range(extensions.enabled)
    /\ Len(layers.enabled) = 1

\* The capability set a call was made on.
SetOf(which, l, e, d) ==
    CASE which = "Layers" -> [supported |-> l.supported, enabled |-> l.enabled]
      [] which = "Extensions" -> [supported |-> e.supported, enabled |-> e.enabled]
      [] OTHER -> [supported |-> d.supported, enabled |-> d.enabled]

\* C8: try_push(name) returns true exactly when name is supported and not yet
\* enabled, and then name is appended as the last element of enabled; in every
\* other case it returns false and the whole set (supported, enabled, flags) is
\* as before.  In every step of a session enabled only grows at its end.
C8_TryPushEffect ==
    [][ /\ call'.op = "try_push" =>
            LET before == SetOf(call'.set, layers, extensions, device_extensions)
                name == call'.name
            IN  /\ call'.ret <=> (/\ name \in Range(before.supported)
                                  /\ name \notin Range(before.enabled))
                /\ call'.ret =>
                     /\ SetOf(call'.set, layers', extensions', device_extensions').enabled
                          = Append(before.enabled, name)
                     /\ SetOf(call'.set, layers', extensions', device_extensions').supported
                          = before.supported
                /\ ~call'.ret => /\ layers' = layers
                                 /\ extensions' = extensions
                                 /\ device_extensions' = device_extensions
        /\ IsPrefix(layers.enabled, layers'.enabled)
        /\ IsPrefix(extensions.enabled, extensions'.enabled)
        /\ IsPrefix(device_extensions.enabled, device_extensions'.enabled)
      ]_vars

\* C8 witness: a try_push on the instance extensions returned true and its name
\* is the last of two enabled names.
C8_Witness ==
    /\ call.set = "Extensions" /\ call.op = "try_push" /\ call.ret
    /\ Len(extensions.enabled) = 2
    /\ extensions.enabled[2] = call.name

\* C9 as claimed: push(name) raises a fatal error only for a name the driver
\* does not support; for every supported name, enabled already or not, it
\* completes and the name is enabled afterwards.
C9_PushPanicsOnlyIfUnsupported ==
    call.op = "push" =>
        LET after == SetOf(call.set, layers, extensions, device_extensions)
        IN  /\ call.panicked <=> call.name \notin Range(after.supported)
            /\ ~call.panicked => call.name \in Range(after.enabled)

\* C10: each named flag is true exactly when its well-known name is enabled.
C10_FlagsMatchEnabled ==
    /\ layers.khronos_validation <=> KHRONOS_VALIDATION \in Range(layers.enabled)
    /\ extensions.ext_debug_utils <=> DebugUtils_name \in Range(extensions.enabled)
    /\ extensions.khr_get_surface_capabilities2
         <=> GetSurfaceCapabilities2_name \in Range(extensions.enabled)
    /\ extensions.khr_surface <=> Surface_name \in Range(extensions.enabled)
    /\ device_extensions.khr_portability_subset
         <=> PORTABILITY_SUBSET \in Range(device_extensions.enabled)
    /\ device_extensions.khr_swapchain <=> Swapchain_name \in Range(device_extensions.enabled)
    /\ device_extensions.nv_mesh_shader <=> MeshShader_name \in Range(device_extensions.enabled)

\* C10 witness: the mesh-shader and swapchain extensions are enabled with their
\* flags set, and a try_push of the unsupported portability subset has just
\* failed, its flag false.
C10_Witness ==
    /\ call.set = "DeviceExtensions" /\ call.op = "try_push" /\ ~call.ret
    /\ call.name = PORTABILITY_SUBSET
    /\ ~device_extensions.khr_portability_subset
    /\ device_extensions.nv_mesh_shader /\ device_extensions.khr_swapchain
    /\ extensions.khr_surface /\ layers.khronos_validation

(***************************************************************************)
(* instance.rs: find_optimal_physical_device.  A physical device is its    *)
(* position in Instance.physical_devices (1 is the first enumerated one);  *)
(* the null handle is 0.  The driver reports its device_type and its       *)
(* memory heaps.                                                           *)
(***************************************************************************)
DeviceTypes == {"DISCRETE_GPU", "INTEGRATED_GPU"}

\* The heaps a driver may report: device-local ones of two sizes and a large
\* host heap.
MemoryHeaps ==
    {[flags |-> {"DEVICE_LOCAL"}, size |-> 1],
     [flags |-> {"DEVICE_LOCAL"}, size |-> 2],
     [flags |-> {}, size |-> 2]}

SeqsUpTo(S, n) == UNION {[1..k -> S] : k \in 0..n}

PhysicalDevices ==
    [device_type : DeviceTypes, memory_heaps : SeqsUpTo(MemoryHeaps, MaxHeaps)]

\* Lines 278-286: the summed size of the heaps flagged DEVICE_LOCAL.
RECURSIVE device_local_heap_size(_, _, _)
device_local_heap_size(memory_heaps, i, current_heap_size) ==
    IF i > Len(memory_heaps) THEN current_heap_size
    ELSE IF "DEVICE_LOCAL" \in memory_heaps[i].flags
    THEN device_local_heap_size(memory_heaps, i + 1, current_heap_size + memory_heaps[i].size)
    ELSE device_local_heap_size(memory_heaps, i + 1, current_heap_size)

\* Lines 270-292: the loop over physical_devices with its two accumulators.
RECURSIVE find_optimal_loop(_, _, _, _)
find_optimal_loop(devices, i, heap_size, found) ==
    IF i > Len(devices) THEN found
    ELSE IF devices[i].device_type # "DISCRETE_GPU"
    THEN find_optimal_loop(devices, i + 1, heap_size, found)
    ELSE LET current_heap_size == device_local_heap_size(devices[i].memory_heaps, 1, 0)
         IN  IF current_heap_size > heap_size
             THEN find_optimal_loop(devices, i + 1, current_heap_size, i)
             ELSE find_optimal_loop(devices, i + 1, heap_size, found)

\* find_optimal_physical_device falling back to the last enumerated device.
find_optimal_physical_device_last(devices) ==
    LET found == find_optimal_loop(devices, 1, 0, NULL)
    IN  IF found # NULL THEN [state |-> "found", handle |-> found]
        ELSE IF Len(devices) = 0 THEN [state |-> "panic", handle |-> NULL]
        ELSE [state |-> "found", handle |-> Len(devices)]

\* Lines 266-299.  self.physical_devices[0] of an empty list is an index out
\* of bounds: a panic.
find_optimal_physical_device(devices) ==
    LET found == find_optimal_loop(devices, 1, 0, NULL)
    IN  IF found # NULL THEN [state |-> "found", handle |-> found]
        ELSE IF Len(devices) = 0 THEN [state |-> "panic", handle |-> NULL]
        ELSE [state |-> "found", handle |-> 1]

(***************************************************************************)
(* SpecPhys: the driver enumerated some physical devices; the selection    *)
(* runs once on them.                                                      *)
(***************************************************************************)
InitPhys ==
    /\ physical_devices \in SeqsUpTo(PhysicalDevices, MaxDevices)
    /\ physical_device = NoDevice
    /\ IdleCaps /\ IdleQueues /\ IdleFormats /\ IdleInit /\ IdleLife

FindOptimalPhysicalDevice ==
    /\ physical_device.state = "none"
    /\ physical_device' = find_optimal_physical_device(physical_devices)
    /\ UNCHANGED <<physical_devices, capvars, queuevars, formatvars, initvars, lifevars>>

NextPhys == FindOptimalPhysicalDevice

SpecPhys == InitPhys /\ [][NextPhys]_vars

IsDiscrete(i) == physical_devices[i].device_type = "DISCRETE_GPU"

DeviceLocalTotal(i) == device_local_heap_size(physical_devices[i].memory_heaps, 1, 0)

\* C3 as claimed: whenever a discrete device was enumerated, the selected
\* device is a discrete one whose summed DEVICE_LOCAL heap size is maximal
\* among the discrete devices, whatever the heap sizes are.
C3_DiscreteWithMaximalHeap ==
    (/\ physical_device.state # "none"
     /\ \E i \in 1..Len(physical_devices) : IsDiscrete(i))
    => /\ physical_device.state = "found"
       /\ IsDiscrete(physical_device.handle)
       /\ \A i \in 1..Len(physical_devices) :
            IsDiscrete(i) => DeviceLocalTotal(i) <= DeviceLocalTotal(physical_device.handle)

\* C4: when the non-empty enumerated list holds no discrete device, the
\* selected device is the first enumerated one.
C4_FallbackFirstDevice ==
    (/\ physical_device.state # "none"
     /\ Len(physical_devices) > 0
     /\ \A i \in 1..Len(physical_devices) : ~IsDiscrete(i))
    => physical_device = [state |-> "found", handle |-> 1]

\* C4 witness: two non-discrete devices with device-local memory were
\* enumerated, the second with more of it, and the first was selected.
C4_Witness ==
    /\ Len(physical_devices) = 2
    /\ \A i \in 1..Len(physical_devices) : ~IsDiscrete(i)
    /\ DeviceLocalTotal(2) > DeviceLocalTotal(1)
    /\ physical_device = [state |-> "found", handle |-> 1]

(***************************************************************************)
(* swapchain.rs: SurfaceFormats and the format selection of Swapchain::new *)
(***************************************************************************)
R16G16B16A16_SFLOAT == "R16G16B16A16_SFLOAT"
EXTENDED_SRGB_LINEAR_EXT == "EXTENDED_SRGB_LINEAR_EXT"

\* Line 44: const FORMATS.
FORMATS == <<"R8G8B8A8_SRGB", "B8G8R8A8_SRGB", "R8G8B8A8_UNORM", "B8G8R8A8_UNORM">>

\* What a driver may report: the five formats the code looks for and one it
\* does not, each in either colour space.
SurfaceFormatsKHR ==
    [format : Range(FORMATS) \cup {R16G16B16A16_SFLOAT, "A2B10G10R10_UNORM_PACK32"},
     color_space : {"SRGB_NONLINEAR", EXTENDED_SRGB_LINEAR_EXT}]

\* Lines 42-47: .iter().find(|f| FORMATS.contains(&f.format)), from position
\* i of the list on.
RECURSIVE find_ldr_from(_, _)
find_ldr_from(formats, i) ==
    IF i > Len(formats) THEN None
    ELSE IF \E k \in 1..Len(FORMATS) : FORMATS[k] = formats[i].format
    THEN Some(formats[i])
    ELSE find_ldr_from(formats, i + 1)

find_ldr_format(formats) == find_ldr_from(formats, 1)

\* Lines 49-55: .iter().find(|f| f.format == R16G16B16A16_SFLOAT &&
\* f.color_space == EXTENDED_SRGB_LINEAR_EXT), from position i of the list on.
RECURSIVE find_hdr_from(_, _)
find_hdr_from(formats, i) ==
    IF i > Len(formats) THEN None
    ELSE IF /\ formats[i].format = R16G16B16A16_SFLOAT
            /\ formats[i].color_space = EXTENDED_SRGB_LINEAR_EXT
    THEN Some(formats[i])
    ELSE find_hdr_from(formats, i + 1)

find_hdr_format(formats) == find_hdr_from(formats, 1)

\* The format selection settling for the first reported format when neither
\* search finds one.
select_surface_format_any(formats) ==
    LET found == or_else(find_hdr_format(formats), find_ldr_format(formats))
    IN  IF found = None
        THEN IF Len(formats) = 0
             THEN [state |-> "error", value |-> None]
             ELSE [state |-> "ok", value |-> Some(formats[1])]
        ELSE [state |-> "ok", value |-> found]

\* Swapchain::new, lines 173-176.
select_surface_format(formats) ==
    LET found == or_else(find_hdr_format(formats), find_ldr_format(formats))
    IN  IF found = None
        THEN [state |-> "error", value |-> None]
        ELSE [state |-> "ok", value |-> found]

(***************************************************************************)
(* SpecFormat: the driver reported the surface formats; Swapchain::new     *)
(* selects one.                                                            *)
(***************************************************************************)
InitFormat ==
    /\ supported_formats \in SeqsUpTo(SurfaceFormatsKHR, MaxFormats)
    /\ used_surface_format = NoFormat
    /\ IdlePresent
    /\ IdleCaps /\ IdlePhys /\ IdleQueues /\ IdleInit /\ IdleLife

SelectSurfaceFormat ==
    /\ used_surface_format.state = "none"
    /\ used_surface_format' = select_surface_format(supported_formats)
    /\ UNCHANGED <<supported_formats, present_modes, vsync_enabled, used_present_mode,
                   capvars, physvars, queuevars, initvars, lifevars>>

NextFormat == SelectSurfaceFormat

SpecFormat == InitFormat /\ [][NextFormat]_vars

IsHdr(f) == f.format = R16G16B16A16_SFLOAT /\ f.color_space = EXTENDED_SRGB_LINEAR_EXT

\* The position of a format in the preference order RGBA8-sRGB > BGRA8-sRGB >
\* RGBA8-UNORM > BGRA8-UNORM.
Rank(format) == CHOOSE i \in 1..Len(FORMATS) : FORMATS[i] = format

\* C1 as claimed: an extended-range float entry is chosen if one is supported;
\* otherwise the chosen format is the highest-ranked of the four 8-bit formats
\* that are supported, whatever the order of the driver's list.
C1_PreferenceOrder ==
    used_surface_format.state = "ok" =>
        LET used == used_surface_format.value[1]
            supported == Range(supported_formats)
        IN  IF \E f \in supported : IsHdr(f)
            THEN IsHdr(used)
            ELSE /\ used \in supported
                 /\ used.format \in Range(FORMATS)
                 /\ \A f \in supported :
                      f.format \in Range(FORMATS) => Rank(used.format) <= Rank(f.format)

(***************************************************************************)
(* device.rs: queue families.  A family index is the code's (from 0); the  *)
(* driver reports per family its flags, its queue count and its answer to  *)
(* get_physical_device_surface_support: Some(bool), or None for an error.  *)
(***************************************************************************)
GRAPHICS == "GRAPHICS"
COMPUTE == "COMPUTE"
TRANSFER == "TRANSFER"

QueueFamilies ==
    [queue_flags : SUBSET {GRAPHICS, COMPUTE, TRANSFER},
     queue_count : 0..MaxQueueCount,
     surface_support : {Some(TRUE), Some(FALSE), None}]

\* find_direct_queue_family_index without the presentation-support test.
RECURSIVE find_direct_loop_no_surface_test(_, _, _, _)
find_direct_loop_no_surface_test(properties, i, queue_count, family_index) ==
    IF i >= Len(properties) THEN [queue_count |-> queue_count, family_index |-> family_index]
    ELSE LET p == properties[i + 1]
             direct_flags == {GRAPHICS, COMPUTE, TRANSFER}
         IN  IF /\ (p.queue_flags \cap direct_flags) = direct_flags
                /\ p.queue_count > queue_count
             THEN find_direct_loop_no_surface_test(properties, i + 1, p.queue_count, i)
             ELSE find_direct_loop_no_surface_test(properties, i + 1, queue_count, family_index)

\* Lines 234-247: the family indices get_physical_device_surface_support is
\* called with.  The && of line 237-242 evaluates the call only for a family
\* that has the direct flags and more queues than the best one so far.
RECURSIVE surface_support_queries(_, _, _)
surface_support_queries(properties, i, queue_count) ==
    IF i >= Len(properties) THEN {}
    ELSE LET p == properties[i + 1]
             direct_flags == {GRAPHICS, COMPUTE, TRANSFER}
             queried == /\ (p.queue_flags \cap direct_flags) = direct_flags
                        /\ p.queue_count > queue_count
             taken == queried /\ unwrap_or(p.surface_support, FALSE)
         IN  (IF queried THEN {i} ELSE {})
             \cup surface_support_queries(properties, i + 1,
                                          IF taken THEN p.queue_count ELSE queue_count)

\* Lines 228-254.
RECURSIVE find_direct_loop(_, _, _, _)
find_direct_loop(properties, i, queue_count, family_index) ==
    IF i >= Len(properties) THEN [queue_count |-> queue_count, family_index |-> family_index]
    ELSE LET p == properties[i + 1]
             direct_flags == {GRAPHICS, COMPUTE, TRANSFER}
         IN  IF /\ (p.queue_flags \cap direct_flags) = direct_flags
                /\ p.queue_count > queue_count
                /\ unwrap_or(p.surface_support, FALSE)
             THEN find_direct_loop(properties, i + 1, p.queue_count, i)
             ELSE find_direct_loop(properties, i + 1, queue_count, family_index)

find_direct_queue_family_index(properties) ==
    LET r == find_direct_loop(properties, 0, 0, 0)
    IN  IF r.queue_count > 0 THEN Some(r.family_index) ELSE None

\* find_queue_family_index without the test of the undesired flags.
RECURSIVE find_loop_no_undesired(_, _, _, _, _, _)
find_loop_no_undesired(properties, desired_flags, undesired_flags, i, queue_count, family_index) ==
    IF i >= Len(properties) THEN [queue_count |-> queue_count, family_index |-> family_index]
    ELSE LET p == properties[i + 1]
         IN  IF /\ (p.queue_flags \cap desired_flags) = desired_flags
                /\ p.queue_count > queue_count
             THEN find_loop_no_undesired(properties, desired_flags, undesired_flags, i + 1,
                                         p.queue_count, i)
             ELSE find_loop_no_undesired(properties, desired_flags, undesired_flags, i + 1,
                                         queue_count, family_index)

\* find_queue_family_index taking a family that has as many queues as the
\* best one so far.
RECURSIVE find_loop_last_of_ties(_, _, _, _, _, _)
find_loop_last_of_ties(properties, desired_flags, undesired_flags, i, queue_count, family_index) ==
    IF i >= Len(properties) THEN [queue_count |-> queue_count, family_index |-> family_index]
    ELSE LET p == properties[i + 1]
         IN  IF /\ (p.queue_flags \cap desired_flags) = desired_flags
                /\ (p.queue_flags \cap undesired_flags) = {}
                /\ p.queue_count >= queue_count /\ p.queue_count > 0
             THEN find_loop_last_of_ties(properties, desired_flags, undesired_flags, i + 1,
                                         p.queue_count, i)
             ELSE find_loop_last_of_ties(properties, desired_flags, undesired_flags, i + 1,
                                         queue_count, family_index)

\* Lines 256-274.
RECURSIVE find_loop(_, _, _, _, _, _)
find_loop(properties, desired_flags, undesired_flags, i, queue_count, family_index) ==
    IF i >= Len(properties) THEN [queue_count |-> queue_count, family_index |-> family_index]
    ELSE LET p == properties[i + 1]
         IN  IF /\ (p.queue_flags \cap desired_flags) = desired_flags
                /\ (p.queue_flags \cap undesired_flags) = {}
                /\ p.queue_count > queue_count
             THEN find_loop(properties, desired_flags, undesired_flags, i + 1, p.queue_count, i)
             ELSE find_loop(properties, desired_flags, undesired_flags, i + 1,
                            queue_count, family_index)

find_queue_family_index(properties, desired_flags, undesired_flags) ==
    LET r == find_loop(properties, desired_flags, undesired_flags, 0, 0, 0)
    IN  IF r.queue_count > 0 THEN Some(r.family_index) ELSE None

\* find_queue_family_indices with compute and transfer falling back to family 0.
find_queue_family_indices_fallback_first(properties) ==
    LET direct == find_direct_queue_family_index(properties)
    IN  IF direct = None THEN None
        ELSE LET direct_index == direct[1]
                 compute_index ==
                     unwrap_or(
                         or_else(or_else(find_queue_family_index(properties, {COMPUTE},
                                                                 {GRAPHICS, TRANSFER}),
                                         find_queue_family_index(properties, {COMPUTE},
                                                                 {GRAPHICS})),
                                 find_queue_family_index(properties, {COMPUTE}, {TRANSFER})),
                         0)
                 transfer_index ==
                     unwrap_or(
                         or_else(or_else(find_queue_family_index(properties, {TRANSFER},
                                                                 {GRAPHICS, COMPUTE}),
                                         find_queue_family_index(properties, {TRANSFER},
                                                                 {GRAPHICS})),
                                 find_queue_family_index(properties, {TRANSFER}, {COMPUTE})),
                         0)
             IN  Some([direct |-> direct_index, compute |-> compute_index,
                       transfer |-> transfer_index])

\* Lines 276-289: None, or Some of the (direct, compute, transfer) indices.
find_queue_family_indices(properties) ==
    LET direct == find_direct_queue_family_index(properties)
    IN  IF direct = None THEN None
        ELSE LET direct_index == direct[1]
                 compute_index ==
                     unwrap_or(
                         or_else(or_else(find_queue_family_index(properties, {COMPUTE},
                                                                 {GRAPHICS, TRANSFER}),
                                         find_queue_family_index(properties, {COMPUTE},
                                                                 {GRAPHICS})),
                                 find_queue_family_index(properties, {COMPUTE}, {TRANSFER})),
                         direct_index)
                 transfer_index ==
                     unwrap_or(
                         or_else(or_else(find_queue_family_index(properties, {TRANSFER},
                                                                 {GRAPHICS, COMPUTE}),
                                         find_queue_family_index(properties, {TRANSFER},
                                                                 {GRAPHICS})),
                                 find_queue_family_index(properties, {TRANSFER}, {COMPUTE})),
                         direct_index)
             IN  Some([direct |-> direct_index, compute |-> compute_index,
                       transfer |-> transfer_index])

\* Line 321 and each DeviceQueueCreateInfo of lines 323-341.
DeviceQueueCreateInfo(queue_family_index) ==
    [queue_family_index |-> queue_family_index, queue_priorities |-> <<1>>]

\* The requests without the one for the transfer family.
device_queue_create_infos_no_transfer(direct, compute, transfer) ==
    LET first == <<DeviceQueueCreateInfo(direct)>>
    IN  IF compute # direct
        THEN Append(first, DeviceQueueCreateInfo(compute)) ELSE first

\* Lines 323-341: the requests passed to create_device.
device_queue_create_infos(direct, compute, transfer) ==
    LET first == <<DeviceQueueCreateInfo(direct)>>
        second == IF compute # direct
                  THEN Append(first, DeviceQueueCreateInfo(compute)) ELSE first
    IN  IF transfer # direct
        THEN Append(second, DeviceQueueCreateInfo(transfer)) ELSE second

\* Device::new, lines 316-341: "error" is the Err of line 319.
Device_new_queues(properties) ==
    LET indices == find_queue_family_indices(properties)
    IN  IF indices = None
        THEN [result |-> "error", direct |-> 0, compute |-> 0, transfer |-> 0,
              create_infos |-> <<>>]
        ELSE [result |-> "ok",
              direct |-> indices[1].direct,
              compute |-> indices[1].compute,
              transfer |-> indices[1].transfer,
              create_infos |-> device_queue_create_infos(indices[1].direct,
                                                         indices[1].compute,
                                                         indices[1].transfer)]

\* Queue::new, lines 183-189: the handle is get_device_queue(family_index, 0),
\* named here by the family and the queue index it was retrieved at.
Queue_new(family_index) ==
    [queue |-> [family |-> family_index, index |-> 0], family_index |-> family_index]

\* Lines 360-362: the three queues of the Device that was returned.
direct_queue == Queue_new(device_queues.direct)
compute_queue == Queue_new(device_queues.compute)
transfer_queue == Queue_new(device_queues.transfer)

(***************************************************************************)
(* SpecQueue: the driver reported the queue families of the selected       *)
(* device; Device::new classifies them and builds its requests.            *)
(***************************************************************************)
\* Layouts of three families: a combined presentable family and two families
\* that cannot present, so that the tiers of compute and transfer meet.
TieredLayouts ==
    {<<[queue_flags |-> {GRAPHICS, COMPUTE, TRANSFER}, queue_count |-> 1,
        surface_support |-> Some(TRUE)], a, b>> :
        a, b \in [queue_flags : SUBSET {GRAPHICS, COMPUTE, TRANSFER},
                  queue_count : 1..MaxQueueCount,
                  surface_support : {Some(FALSE)}]}

\* The layout of a common desktop device: a combined presentable family of 4
\* queues and a compute-only family of 2 queues.
ScenarioLayouts ==
    {<<[queue_flags |-> {GRAPHICS, COMPUTE, TRANSFER}, queue_count |-> 4,
        surface_support |-> Some(TRUE)],
       [queue_flags |-> {COMPUTE}, queue_count |-> 2, surface_support |-> s]>> :
        s \in {Some(TRUE), Some(FALSE)}}

InitQueue ==
    /\ queue_family_properties \in
         SeqsUpTo(QueueFamilies, MaxFamilies) \cup TieredLayouts \cup ScenarioLayouts
    /\ device_queues = NoQueues
    /\ IdleCaps /\ IdlePhys /\ IdleFormats /\ IdleInit /\ IdleLife

ClassifyQueueFamilies ==
    /\ device_queues.result = "none"
    /\ device_queues' = Device_new_queues(queue_family_properties)
    /\ UNCHANGED <<queue_family_properties, capvars, physvars, formatvars, initvars, lifevars>>

NextQueue == ClassifyQueueFamilies

SpecQueue == InitQueue /\ [][NextQueue]_vars

\* C2 as claimed: when Device::new reaches device creation, its requests name
\* exactly the distinct family indices among direct, compute and transfer, and
\* no family index twice.
C2_OneRequestPerFamily ==
    device_queues.result = "ok" =>
        LET infos == device_queues.create_infos
        IN  /\ {infos[i].queue_family_index : i \in 1..Len(infos)}
                 = {device_queues.direct, device_queues.compute, device_queues.transfer}
            /\ \A i, j \in 1..Len(infos) :
                 i # j => infos[i].queue_family_index # infos[j].queue_family_index

\* The family of index i (from 0) of the queried device.
Family(i) == queue_family_properties[i + 1]

FamilyIndices == 0..(Len(queue_family_properties) - 1)

\* The families that have graphics, compute and transfer together, a nonzero
\* queue count and presentation to the surface.
DirectCandidates ==
    {i \in FamilyIndices :
        /\ {GRAPHICS, COMPUTE, TRANSFER} \subseteq Family(i).queue_flags
        /\ Family(i).queue_count > 0
        /\ Family(i).surface_support = Some(TRUE)}

\* C11: the selected direct family has graphics, compute and transfer, a
\* nonzero queue count and presentation support, and no family with these
\* three has more queues; when no family has them, Device::new fails.
C11_DirectFamily ==
    device_queues.result # "none" =>
        IF DirectCandidates = {}
        THEN device_queues.result = "error"
        ELSE /\ device_queues.result = "ok"
             /\ device_queues.direct \in DirectCandidates
             /\ \A j \in DirectCandidates :
                  Family(j).queue_count <= Family(device_queues.direct).queue_count

\* C11 witness: family 0 is combined with more queues but cannot present,
\* family 1 is a candidate and was selected.
C11_Witness ==
    /\ device_queues.result = "ok" /\ device_queues.direct = 1
    /\ Len(queue_family_properties) = 2
    /\ Family(0).queue_flags = {GRAPHICS, COMPUTE, TRANSFER}
    /\ Family(0).queue_count > Family(1).queue_count
    /\ Family(0).surface_support = Some(FALSE)

\* The families of a tier: all desired flags, no undesired flag, some queue.
Tier(desired, undesired) ==
    {i \in FamilyIndices :
        /\ desired \subseteq Family(i).queue_flags
        /\ Family(i).queue_flags \cap undesired = {}
        /\ Family(i).queue_count > 0}

\* chosen is right for role R whose other non-graphics capability is Y.
TierChoice(chosen, R, Y) ==
    LET t1 == Tier({R}, {GRAPHICS, Y})
        t2 == Tier({R}, {GRAPHICS})
        t3 == Tier({R}, {Y})
        first == IF t1 # {} THEN t1 ELSE IF t2 # {} THEN t2 ELSE t3
    IN  IF first = {}
        THEN chosen = device_queues.direct
        ELSE /\ chosen \in first
             /\ \A j \in first : Family(j).queue_count <= Family(chosen).queue_count

\* C12: compute and transfer each come from the first non-empty tier of
\* (1) role without graphics and without the other capability, (2) role
\* without graphics, (3) role without the other capability, with the largest
\* queue count of that tier; with all three tiers empty they are the direct
\* family.
C12_TieredPolicy ==
    device_queues.result = "ok" =>
        /\ TierChoice(device_queues.compute, COMPUTE, TRANSFER)
        /\ TierChoice(device_queues.transfer, TRANSFER, COMPUTE)

\* C12 witness: compute has no family of tier 1, one of tier 2 and one of
\* tier 3 with more queues; the family of tier 2 was chosen.
C12_Witness ==
    /\ device_queues.result = "ok" /\ device_queues.compute = 2
    /\ Len(queue_family_properties) = 3
    /\ Family(1).queue_flags = {GRAPHICS, COMPUTE}
    /\ Family(2).queue_flags = {COMPUTE, TRANSFER}
    /\ Family(1).queue_count > Family(2).queue_count

\* C13: when the only family with any of graphics, compute, transfer is one
\* combined presentable family with queues, compute and transfer are the
\* direct family; and the layout {0: combined presentable, 4 queues; 1:
\* compute only, 2 queues} gives direct 0, compute 1, transfer 0.
C13_Aliasing ==
    device_queues.result # "none" =>
        /\ \A i \in FamilyIndices :
             (/\ i \in DirectCandidates
              /\ \A j \in FamilyIndices \ {i} : Family(j).queue_flags = {})
             => /\ device_queues.result = "ok"
                /\ device_queues.direct = i
                /\ device_queues.compute = i
                /\ device_queues.transfer = i
        /\ queue_family_properties \in ScenarioLayouts
             => /\ device_queues.result = "ok"
                /\ device_queues.direct = 0
                /\ device_queues.compute = 1
                /\ device_queues.transfer = 0

\* C13 witness: family 0 has no capability, family 1 is the combined
\* presentable family, and all three roles are family 1.
C13_Witness ==
    /\ Len(queue_family_properties) = 2
    /\ Family(0).queue_flags = {} /\ Family(0).queue_count > 0
    /\ 1 \in DirectCandidates
    /\ device_queues.result = "ok"
    /\ device_queues.direct = 1 /\ device_queues.compute = 1 /\ device_queues.transfer = 1

\* The family indices of the requests passed to device creation.
RequestedFamilies ==
    {device_queues.create_infos[i].queue_family_index :
        i \in 1..Len(device_queues.create_infos)}

\* A queue was retrieved at index 0 of a requested family, records that
\* family, and the family has queues and the capabilities flags.
ValidQueue(q, flags) ==
    /\ q.queue.index = 0
    /\ q.queue.family \in RequestedFamilies
    /\ q.family_index = q.queue.family
    /\ q.queue.family \in FamilyIndices
    /\ Family(q.queue.family).queue_count > 0
    /\ flags \subseteq Family(q.queue.family).queue_flags

\* C23: each of the three queues of a Device that was returned was retrieved
\* at queue index 0 from a family named in the requests passed to device
\* creation, records that family index, and the family has a nonzero queue
\* count and the capability of the role: graphics, compute, transfer and
\* presentation for direct, compute for compute, transfer for transfer.
C23_QueueHandles ==
    device_queues.result = "ok" =>
        /\ ValidQueue(direct_queue, {GRAPHICS, COMPUTE, TRANSFER})
        /\ Family(direct_queue.family_index).surface_support = Some(TRUE)
        /\ ValidQueue(compute_queue, {COMPUTE})
        /\ ValidQueue(transfer_queue, {TRANSFER})

\* C23 witness: three families, each role on a family of its own, three
\* requests.
C23_Witness ==
    /\ device_queues.result = "ok"
    /\ Len(device_queues.create_infos) = 3
    /\ Cardinality({direct_queue.family_index, compute_queue.family_index,
                    transfer_queue.family_index}) = 3
    /\ direct_queue.queue.index = 0

\* The lowest index among the families of a set that have the most queues.
LowestOfLargest(families) ==
    CHOOSE i \in families :
        /\ \A j \in families : Family(j).queue_count <= Family(i).queue_count
        /\ \A j \in families : Family(j).queue_count = Family(i).queue_count => i <= j

\* The family of role R, whose other non-graphics capability is Y, that the
\* list of families determines.
RoleFamily(R, Y) ==
    LET t1 == Tier({R}, {GRAPHICS, Y})
        t2 == Tier({R}, {GRAPHICS})
        t3 == Tier({R}, {Y})
    IN  IF t1 # {} THEN LowestOfLargest(t1)
        ELSE IF t2 # {} THEN LowestOfLargest(t2)
        ELSE IF t3 # {} THEN LowestOfLargest(t3)
        ELSE LowestOfLargest(DirectCandidates)

\* C24: the outcome of the selection is determined by the list of (flags,
\* queue count, presentation support) per family: it fails exactly when no
\* family qualifies as direct, and otherwise each role gets, of the
\* qualifying families of its selection or tier with the largest queue
\* count, the one of lowest index.
C24_LowestIndexOfTies ==
    device_queues.result # "none" =>
        IF DirectCandidates = {}
        THEN device_queues.result = "error"
        ELSE /\ device_queues.result = "ok"
             /\ device_queues.direct = LowestOfLargest(DirectCandidates)
             /\ device_queues.compute = RoleFamily(COMPUTE, TRANSFER)
             /\ device_queues.transfer = RoleFamily(TRANSFER, COMPUTE)
             /\ device_queues.create_infos =
                  device_queue_create_infos(device_queues.direct, device_queues.compute,
                                            device_queues.transfer)

\* C24 witness: families 1 and 2 are both compute-only with the same queue
\* count, and family 1 is the compute family.
C24_Witness ==
    /\ device_queues.result = "ok"
    /\ Len(queue_family_properties) = 3
    /\ Family(1).queue_flags = {COMPUTE} /\ Family(2).queue_flags = {COMPUTE}
    /\ Family(1).queue_count = Family(2).queue_count
    /\ device_queues.compute = 1

\* C18 as claimed: a failure of a presentation-support query made while the
\* direct family is looked for is not taken for "unsupported": Device::new
\* returns an error whenever one of the queries it made failed.
C18_QueryFailurePropagated ==
    (/\ device_queues.result # "none"
     /\ \E i \in surface_support_queries(queue_family_properties, 0, 0) :
           Family(i).surface_support = None)
    => device_queues.result = "error"

(***************************************************************************)
(* The calls a run makes on the driver and on the callbacks, in order.  A  *)
(* call is a create or a destroy of a native handle, a query, or a         *)
(* callback; ok tells whether it returned success.  The handle of kind     *)
(* what and number arg is live from its successful create to its destroy.  *)
(***************************************************************************)
Create(what, arg) == [op |-> "create", what |-> what, arg |-> arg, ok |-> TRUE]
Destroy(what, arg) == [op |-> "destroy", what |-> what, arg |-> arg, ok |-> TRUE]
Query(what, arg) == [op |-> "query", what |-> what, arg |-> arg, ok |-> TRUE]
Callback(what) == [op |-> "callback", what |-> what, arg |-> 0, ok |-> TRUE]

\* The driver fails no call / the driver fails the call c.
NoFailure == [what |-> "none", arg |-> 0]
FailureOf(c) == [what |-> c.what, arg |-> c.arg]

\* The ? operator along a run of fallible calls: the calls made up to and
\* with the first one the driver fails, and whether one failed.
RECURSIVE try_calls(_, _, _)
try_calls(seq, fail, i) ==
    IF i > Len(seq) THEN [calls |-> <<>>, failed |-> FALSE]
    ELSE IF FailureOf(seq[i]) = fail /\ seq[i].op # "destroy"
    THEN [calls |-> <<[seq[i] EXCEPT !.ok = FALSE]>>, failed |-> TRUE]
    ELSE LET rest == try_calls(seq, fail, i + 1)
         IN  [calls |-> <<seq[i]>> \o rest.calls, failed |-> rest.failed]

\* The numbers of the handles of a kind the calls created.
Created(log, what) ==
    {log[i].arg : i \in {j \in 1..Len(log) :
                            log[j].op = "create" /\ log[j].what = what /\ log[j].ok}}

(***************************************************************************)
(* swapchain.rs: Swapchain::new with create_render_pass and                *)
(* create_swapchain.                                                       *)
(***************************************************************************)
MaxModes == 3
MaxImages == 2

IMMEDIATE == "IMMEDIATE"
MAILBOX == "MAILBOX"
FIFO == "FIFO"

\* vk::PresentModeKHR values a driver may report.
PresentModes == {IMMEDIATE, MAILBOX, FIFO, "FIFO_RELAXED"}

\* Line 171: present_modes.iter().find(|p| **p == present_mode).copied()
get_present_mode_if_supported(modes, present_mode) ==
    IF \E i \in 1..Len(modes) : modes[i] = present_mode THEN Some(present_mode) ELSE None

\* Lines 178-184 preferring MAILBOX to IMMEDIATE.
select_present_mode_mailbox_first(modes, vsync) ==
    IF vsync THEN FIFO
    ELSE unwrap_or(or_else(get_present_mode_if_supported(modes, MAILBOX),
                           get_present_mode_if_supported(modes, IMMEDIATE)),
                   FIFO)

\* Lines 178-184.
select_present_mode(modes, vsync) ==
    IF vsync THEN FIFO
    ELSE unwrap_or(or_else(get_present_mode_if_supported(modes, IMMEDIATE),
                           get_present_mode_if_supported(modes, MAILBOX)),
                   FIFO)

\* Lines 167-170: the queries Swapchain::new starts with.
swapchain_queries ==
    <<Query("get_physical_device_surface_capabilities2", 0),
      Query("get_physical_device_surface_formats2_len", 0),
      Query("get_physical_device_surface_formats2", 0),
      Query("get_physical_device_surface_present_modes", 0)>>

\* Lines 150-157: one image view and one framebuffer per swapchain image.
RECURSIVE per_image_calls(_, _)
per_image_calls(images, k) ==
    IF k > images THEN <<>>
    ELSE <<Create("image_view", k), Create("framebuffer", k)>> \o per_image_calls(images, k + 1)

\* Line 186 and create_swapchain (lines 104-160) on a driver that gives the
\* swapchain that many images.
swapchain_creates(images) ==
    <<Create("render_pass", 0), Create("swapchain", 0), Query("get_swapchain_images", 0)>>
    \o per_image_calls(images, 1)

\* The calls of Swapchain::new the driver may fail.
SwapchainFailures(images) ==
    {FailureOf(swapchain_queries[i]) : i \in 1..Len(swapchain_queries)}
    \cup {FailureOf(swapchain_creates(images)[i]) : i \in 1..Len(swapchain_creates(images))}

\* Swapchain::new, lines 162-219: what it returns, the values of its locals
\* and the calls it made.
Swapchain_new(formats, modes, vsync, images, fail) ==
    LET queries == try_calls(swapchain_queries, fail, 1)
        found == select_surface_format(formats)
        creates == try_calls(swapchain_creates(images), fail, 1)
    IN  IF queries.failed
        THEN [result |-> "DriverError", supported_formats |-> <<>>, present_modes |-> <<>>,
              used_surface_format |-> NoFormat, used_present_mode |-> NoPresentMode,
              calls |-> queries.calls]
        ELSE IF found.state = "error"
        THEN [result |-> "NoSuitableSurfaceFormat",
              supported_formats |-> formats, present_modes |-> modes,
              used_surface_format |-> found, used_present_mode |-> NoPresentMode,
              calls |-> queries.calls]
        ELSE [result |-> IF creates.failed THEN "DriverError" ELSE "ok",
              supported_formats |-> formats, present_modes |-> modes,
              used_surface_format |-> found,
              used_present_mode |-> select_present_mode(modes, vsync),
              calls |-> queries.calls \o creates.calls]

(***************************************************************************)
(* Ownership.  A component is handed out as an Arc; its Drop runs when the *)
(* last Arc of it is released, and then its fields are dropped in the      *)
(* order of their declaration, which releases the Arcs it holds.           *)
(***************************************************************************)
\* The Arc fields of each struct, in declaration order.
Instance_fields == <<>>
Surface_fields_none == <<>>
Surface_fields == <<"Instance">>
Device_fields == <<"Instance", "Surface">>
Swapchain_fields == <<"Instance", "Surface", "Device">>

Fields(c) ==
    CASE c = "Instance" -> Instance_fields
      [] c = "Surface" -> Surface_fields
      [] c = "Device" -> Device_fields
      [] c = "Swapchain" -> Swapchain_fields

\* instance.rs lines 337-348.
Instance_drop(messenger) ==
    (IF messenger # NULL THEN <<Destroy("debug_utils_messenger", 0)>> ELSE <<>>)
    \o <<Destroy("instance", 0)>>

\* surface.rs lines 28-35.
Surface_drop == <<Destroy("surface", 0)>>

\* device.rs lines 458-465.
Device_drop == <<Destroy("device", 0)>>

\* The Drop of Swapchain destroying the image views before the framebuffers.
Swapchain_drop_views_first(images) ==
    [k \in 1..images |-> Destroy("image_view", k)]
    \o [k \in 1..images |-> Destroy("framebuffer", k)]
    \o <<Destroy("swapchain", 0), Destroy("render_pass", 0)>>

\* swapchain.rs lines 267-281, for a swapchain of that many framebuffers and
\* image views.
Swapchain_drop(images) ==
    [k \in 1..images |-> Destroy("framebuffer", k)]
    \o [k \in 1..images |-> Destroy("image_view", k)]
    \o <<Destroy("swapchain", 0), Destroy("render_pass", 0)>>

\* The calls of the Drop of component c in the state st.
Drop_calls(c, st) ==
    CASE c = "Instance" -> Instance_drop(st.messenger)
      [] c = "Surface" -> Surface_drop
      [] c = "Device" -> Device_drop
      [] c = "Swapchain" -> Swapchain_drop(Cardinality(Created(st.calls, "framebuffer")))

\* Releasing one Arc of c: the strong count falls; at zero the Drop of c runs
\* and then its fields are dropped.
RECURSIVE Arc_drop(_, _)
RECURSIVE drop_fields(_, _, _)
Arc_drop(c, st) ==
    IF st.strong[c] > 1
    THEN [st EXCEPT !.strong[c] = @ - 1]
    ELSE drop_fields(Fields(c), 1,
                     [st EXCEPT !.strong[c] = 0, !.calls = @ \o Drop_calls(c, st)])

drop_fields(fields, i, st) ==
    IF i > Len(fields) THEN st
    ELSE drop_fields(fields, i + 1, Arc_drop(fields[i], st))

(***************************************************************************)
(* How a step of a host ends when it failed.  initialize unwraps every     *)
(* Result: an Err is a panic, which drops the locals of initialize in the  *)
(* reverse order of their declaration.  Another host gets the Err back and *)
(* keeps what it holds.                                                    *)
(***************************************************************************)
\* A component was constructed from clones of the host's Arcs: it keeps one
\* Arc of each component among its fields, and the host gets the first Arc
\* of the new component.
Constructed(new) ==
    [c \in Components |->
        IF c = new THEN 1
        ELSE strong[c] + Cardinality({i \in 1..Len(Fields(new)) : Fields(new)[i] = c})]

\* The Arcs a host holds as locals, last declared first.
LocalsReversed(holding) ==
    SelectSeq(<<"Swapchain", "Device", "Surface", "Instance">>, LAMBDA c : c \in holding)

Failed(unwraps, kind, at, st) ==
    /\ pc' = "failed"
    /\ error' = [kind |-> kind, at |-> at]
    /\ IF unwraps
       THEN LET unwound == drop_fields(LocalsReversed(held), 1, st)
            IN  strong' = unwound.strong /\ calls' = unwound.calls /\ held' = {}
       ELSE strong' = st.strong /\ calls' = st.calls /\ held' = held

\* Swapchain::new called as initialize calls it (renderer/mod.rs line 66):
\* with a clone of each Arc, which the Swapchain keeps when it is returned.
SwapchainNewFrom(unwraps, vsyncs, formatLists, modeLists) ==
    /\ pc = "Swapchain::new"
    /\ \E vsync \in vsyncs, formats \in formatLists, modes \in modeLists,
          images \in 1..MaxImages :
         \E fail \in {NoFailure} \cup SwapchainFailures(images) :
            \E r \in {Swapchain_new(formats, modes, vsync, images, fail)} :
            LET st == [strong |-> strong, calls |-> calls \o r.calls,
                       messenger |-> debug_utils_messenger]
            IN  /\ supported_formats' = r.supported_formats
                /\ present_modes' = r.present_modes
                /\ used_surface_format' = r.used_surface_format
                /\ used_present_mode' = r.used_present_mode
                /\ vsync_enabled' = vsync
                /\ IF r.result = "ok"
                   THEN /\ strong' = Constructed("Swapchain")
                        /\ held' = held \cup {"Swapchain"}
                        /\ calls' = st.calls
                        /\ pc' = "done" /\ error' = NoError
                   ELSE Failed(unwraps, r.result, "Swapchain::new", st)
    /\ UNCHANGED <<capvars, physvars, queuevars, instance_version, api_version,
                   debug_utils_messenger>>

(***************************************************************************)
(* SpecSwapchain: a host that holds an instance, a surface and a device    *)
(* calls Swapchain::new with either vsync setting and gets its Result.     *)
(***************************************************************************)
MaxSwapchainFormats == 2

\* The surface formats of this host's driver: the extended-range float format
\* in the matching and in another colour space, and an 8-bit format.
SwapchainFormats ==
    SeqsUpTo({[format |-> R16G16B16A16_SFLOAT, color_space |-> EXTENDED_SRGB_LINEAR_EXT],
              [format |-> R16G16B16A16_SFLOAT, color_space |-> "SRGB_NONLINEAR"],
              [format |-> "B8G8R8A8_UNORM", color_space |-> "SRGB_NONLINEAR"]},
             MaxSwapchainFormats)

InitSwapchain ==
    /\ pc = "Swapchain::new" /\ error = NoError
    /\ instance_version = NotQueried /\ api_version = NotQueried
    /\ debug_utils_messenger = NULL
    /\ strong = [c \in Components |->
                    CASE c = "Instance" -> 3 [] c = "Surface" -> 2
                      [] c = "Device" -> 1 [] c = "Swapchain" -> 0]
    /\ held = {"Instance", "Surface", "Device"}
    /\ calls = <<Create("instance", 0), Create("surface", 0), Create("device", 0)>>
    /\ IdleCaps /\ IdlePhys /\ IdleQueues /\ IdleFormats

HostSwapchainNew ==
    SwapchainNewFrom(FALSE, BOOLEAN, SwapchainFormats, SeqsUpTo(PresentModes, MaxModes))

NextSwapchain == HostSwapchainNew

SpecSwapchain == InitSwapchain /\ [][NextSwapchain]_vars

\* C14: with vsync_enabled the used present mode is FIFO whatever the driver
\* supports; without it the mode is IMMEDIATE if supported, else MAILBOX if
\* supported, else FIFO.  Every Swapchain that was returned has a mode.
C14_PresentMode ==
    /\ pc = "done" => used_present_mode # NoPresentMode
    /\ used_present_mode # NoPresentMode =>
         used_present_mode =
            IF vsync_enabled THEN FIFO
            ELSE IF IMMEDIATE \in Range(present_modes) THEN IMMEDIATE
            ELSE IF MAILBOX \in Range(present_modes) THEN MAILBOX
            ELSE FIFO

\* C14 witness: without vsync on a driver that supports FIFO and MAILBOX but
\* not IMMEDIATE a Swapchain was returned that uses MAILBOX.
C14_Witness ==
    /\ pc = "done" /\ ~vsync_enabled
    /\ present_modes = <<FIFO, MAILBOX>>
    /\ used_present_mode = MAILBOX

\* C15: when the format selection ran on a list that holds neither the
\* extended-range float format in its colour space nor one of the four 8-bit
\* formats, Swapchain::new failed with the no-suitable-surface-format error and
\* no render pass, swapchain, image view or framebuffer was created.
C15_NoSuitableSurfaceFormat ==
    (/\ used_surface_format.state # "none"
     /\ \A i \in 1..Len(supported_formats) :
           /\ ~IsHdr(supported_formats[i])
           /\ supported_formats[i].format \notin Range(FORMATS))
    => /\ error = [kind |-> "NoSuitableSurfaceFormat", at |-> "Swapchain::new"]
       /\ \A what \in {"render_pass", "swapchain", "image_view", "framebuffer"} :
            \A i \in 1..Len(calls) : ~(calls[i].op = "create" /\ calls[i].what = what)

\* C15 witness: the driver reported the float format twice, never in the
\* extended colour space, and Swapchain::new failed for want of a format.
C15_Witness ==
    /\ error.kind = "NoSuitableSurfaceFormat"
    /\ Len(supported_formats) = 2
    /\ \A i \in 1..2 : supported_formats[i].format = R16G16B16A16_SFLOAT
    /\ Len(calls) = 7

\* The places in the log of the handles that were created and not destroyed
\* afterwards.
Undestroyed(log) ==
    {i \in 1..Len(log) :
        /\ log[i].op = "create" /\ log[i].ok
        /\ \A j \in (i + 1)..Len(log) : log[j] # Destroy(log[i].what, log[i].arg)}

\* C21: when Swapchain::new returned an error, every handle it had created
\* (render pass, swapchain, image views, framebuffers) has been destroyed:
\* the only live handles are those the host came with.
C21_PartialFailureReleased ==
    pc = "failed" =>
        \A i \in Undestroyed(calls) : calls[i].what \in {"instance", "surface", "device"}

(***************************************************************************)
(* ash: vk::make_api_version and its accessors, on a u32.                  *)
(*   (variant << 29) | (major << 22) | (minor << 12) | patch               *)
(***************************************************************************)
make_api_version(variant, major, minor, patch) ==
    variant * 2^29 + major * 2^22 + minor * 2^12 + patch

\* (version >> 22) & 0x7F
api_version_major(version) == (version \div 2^22) % 2^7

\* (version >> 12) & 0x3FF
api_version_minor(version) == (version \div 2^12) % 2^10

\* version & 0xFFF
api_version_patch(version) == version % 2^12

API_VERSION_1_0 == make_api_version(0, 1, 0, 0)

\* The versions a driver may report.
Versions ==
    {make_api_version(0, major, minor, patch) :
        major \in 0..MaxMajor, minor \in 0..MaxMinor, patch \in 0..MaxPatch}

(***************************************************************************)
(* renderer/mod.rs: initialize, with Instance::new and Device::new.        *)
(***************************************************************************)
\* ash_window::enumerate_required_extensions(&window) of an X11 window.
RequiredExtensions == <<Surface_name, "VK_KHR_xcb_surface">>

\* instance.rs line 216: .iter().for_each(|e| extensions.push(*e))
RECURSIVE push_required(_, _, _)
push_required(self, names, i) ==
    IF i > Len(names) THEN [self |-> self, panicked |-> FALSE]
    ELSE LET r == Extensions_push(self, names[i])
         IN  IF r.panicked THEN r ELSE push_required(r.self, names, i + 1)

\* renderer/mod.rs lines 13-32: the callback initialize gives Instance::new.
\* reported is what try_enumerate_instance_version answered, an Option.
instance_callback(l, e, reported) ==
    LET version == unwrap_or(reported, API_VERSION_1_0)
        major == api_version_major(version)
        minor == api_version_minor(version)
    IN  IF major < 1 \/ minor < 1
        THEN [result |-> "VersionUnsupported", layers |-> l, extensions |-> e]
        ELSE LET lp == Layers_push(l, KHRONOS_VALIDATION)
             IN  IF lp.panicked
                 THEN [result |-> "panic", layers |-> lp.self, extensions |-> e]
                 ELSE LET ep == Extensions_push(e, GetSurfaceCapabilities2_name)
                      IN  [result |-> IF ep.panicked THEN "panic" ELSE "ok",
                           layers |-> lp.self, extensions |-> ep.self]

\* renderer/mod.rs lines 42-61: the callback initialize gives Device::new.
\* Line 44 reads major with api_version_minor.
device_callback(e, version) ==
    LET major == api_version_minor(version)
        minor == api_version_minor(version)
    IN  IF major < 1 \/ minor < 1
        THEN [result |-> "VersionUnsupported", extensions |-> e]
        ELSE LET e1 == DeviceExtensions_try_push(e, PORTABILITY_SUBSET).self
                 e2 == DeviceExtensions_push(e1, Swapchain_name)
             IN  IF e2.panicked
                 THEN [result |-> "panic", extensions |-> e2.self]
                 ELSE [result |-> "ok",
                       extensions |-> DeviceExtensions_try_push(e2.self, MeshShader_name).self]

\* What the driver answers during one run of initialize.
AllLists(names) == SupportedLists(names, Len(names))

EnumeratedDevices ==
    SeqsUpTo([device_type : DeviceTypes,
              memory_heaps : {<<[flags |-> {"DEVICE_LOCAL"}, size |-> 1]>>}], 1)

EnumeratedQueueFamilies ==
    SeqsUpTo([queue_flags : {{GRAPHICS, COMPUTE, TRANSFER}, {COMPUTE, TRANSFER}},
              queue_count : {1},
              surface_support : {Some(TRUE), Some(FALSE)}], 1)

EnumeratedFormats ==
    SeqsUpTo([format : {R16G16B16A16_SFLOAT, "B8G8R8A8_UNORM", "A2B10G10R10_UNORM_PACK32"},
              color_space : {EXTENDED_SRGB_LINEAR_EXT}], 1)

EnumeratedPresentModes == {<<IMMEDIATE, MAILBOX, FIFO>>}

\* The layers and extensions of the driver: all of them, or all but one that
\* initialize cannot do without.
EnumeratedLayers == {LayerNames, <<"VK_LAYER_LUNARG_api_dump">>}

EnumeratedInstanceExtensions ==
    {InstanceExtensionNames,
     <<DebugUtils_name, GetSurfaceCapabilities2_name, Surface_name>>,
     <<DebugUtils_name, Surface_name, "VK_KHR_xcb_surface">>}

EnumeratedDeviceExtensions ==
    {DeviceExtensionNames,
     <<Swapchain_name>>,
     <<PORTABILITY_SUBSET, MeshShader_name, "VK_KHR_maintenance1">>}

(***************************************************************************)
(* instance.rs: Instance::new.  Its callback is an input: the one of       *)
(* initialize, or one of a host that try_pushes some extension names and   *)
(* returns Ok or Err.                                                      *)
(***************************************************************************)
InitializeCallback(reported) ==
    [kind |-> "initialize", reported |-> reported, names |-> <<>>, result |-> "ok"]

HostCallback(names, result) ==
    [kind |-> "host", reported |-> None, names |-> names, result |-> result]

\* A host callback: extensions.try_push(name) for each of its names.
RECURSIVE try_push_all(_, _, _)
try_push_all(self, names, i) ==
    IF i > Len(names) THEN self
    ELSE try_push_all(Extensions_try_push(self, names[i]).self, names, i + 1)

\* callback(&entry_loader, &mut layers, &mut extensions), line 218.  The
\* callback of initialize starts with try_enumerate_instance_version()?.
run_instance_callback(cb, l, e, fail) ==
    IF cb.kind = "initialize"
    THEN LET version == try_calls(<<Query("try_enumerate_instance_version", 0)>>, fail, 1)
             r == instance_callback(l, e, cb.reported)
         IN  IF version.failed
             THEN [result |-> "DriverError", layers |-> l, extensions |-> e,
                   instance_version |-> NotQueried,
                   calls |-> <<Callback("Instance::new")>> \o version.calls]
             ELSE [result |-> r.result, layers |-> r.layers, extensions |-> r.extensions,
                   instance_version |-> [state |-> "queried", value |-> cb.reported],
                   calls |-> <<Callback("Instance::new")>> \o version.calls]
    ELSE [result |-> cb.result, layers |-> l,
          extensions |-> try_push_all(e, cb.names, 1),
          instance_version |-> NotQueried,
          calls |-> <<Callback("Instance::new")>>]

\* Lines 211-216: what Instance::new asks before it calls the callback.
instance_queries ==
    <<Query("Entry::load", 0),
      Query("enumerate_instance_layer_properties", 0),
      Query("enumerate_instance_extension_properties", 0),
      Query("enumerate_required_extensions", 0)>>

\* Lines 225-246: create_instance, the messenger when the debug-utils
\* extension is enabled, enumerate_physical_devices.
instance_creates(ext_debug_utils) ==
    <<Create("instance", 0)>>
    \o (IF ext_debug_utils THEN <<Create("debug_utils_messenger", 0)>> ELSE <<>>)
    \o <<Query("enumerate_physical_devices", 0)>>

InstanceFailures ==
    {FailureOf(instance_queries[i]) : i \in 1..Len(instance_queries)}
    \cup {FailureOf(instance_creates(TRUE)[i]) : i \in 1..Len(instance_creates(TRUE))}
    \cup {FailureOf(Query("try_enumerate_instance_version", 0))}

\* Instance::new with the debug-utils messenger created whatever was enabled.
Instance_new_always_messenger(drv_layers, drv_extensions, cb, devices, fail) ==
    LET queries == try_calls(instance_queries, fail, 1)
        required == push_required(Extensions_new(drv_extensions), RequiredExtensions, 1)
        called == run_instance_callback(cb, Layers_new(drv_layers), required.self, fail)
        creates == try_calls(instance_creates(TRUE), fail, 1)
        nothing == [result |-> "DriverError", layers |-> Layers_new(<<>>),
                    extensions |-> Extensions_new(<<>>), instance_version |-> NotQueried,
                    messenger |-> NULL, physical_devices |-> <<>>, calls |-> queries.calls]
    IN  IF queries.failed THEN nothing
        ELSE IF required.panicked
        THEN [nothing EXCEPT !.result = "panic", !.layers = Layers_new(drv_layers),
                             !.extensions = required.self]
        ELSE LET negotiated ==
                     [nothing EXCEPT !.result = called.result, !.layers = called.layers,
                                     !.extensions = called.extensions,
                                     !.instance_version = called.instance_version,
                                     !.calls = queries.calls \o called.calls]
             IN  IF called.result # "ok" THEN negotiated
                 ELSE IF creates.failed
                 THEN [negotiated EXCEPT !.result = "DriverError",
                                         !.calls = @ \o creates.calls]
                 ELSE [negotiated EXCEPT !.calls = @ \o creates.calls,
                                         !.messenger = 1,
                                         !.physical_devices = devices]

\* Instance::new, lines 209-264: what it returns, its locals and the calls it
\* made.  The messenger handle the driver gives is 1.
Instance_new(drv_layers, drv_extensions, cb, devices, fail) ==
    LET queries == try_calls(instance_queries, fail, 1)
        required == push_required(Extensions_new(drv_extensions), RequiredExtensions, 1)
        called == run_instance_callback(cb, Layers_new(drv_layers), required.self, fail)
        creates == try_calls(instance_creates(called.extensions.ext_debug_utils), fail, 1)
        nothing == [result |-> "DriverError", layers |-> Layers_new(<<>>),
                    extensions |-> Extensions_new(<<>>), instance_version |-> NotQueried,
                    messenger |-> NULL, physical_devices |-> <<>>, calls |-> queries.calls]
    IN  IF queries.failed THEN nothing
        ELSE IF required.panicked
        THEN [nothing EXCEPT !.result = "panic", !.layers = Layers_new(drv_layers),
                             !.extensions = required.self]
        ELSE LET negotiated ==
                     [nothing EXCEPT !.result = called.result, !.layers = called.layers,
                                     !.extensions = called.extensions,
                                     !.instance_version = called.instance_version,
                                     !.calls = queries.calls \o called.calls]
             IN  IF called.result # "ok" THEN negotiated
                 ELSE IF creates.failed
                 THEN [negotiated EXCEPT !.result = "DriverError",
                                         !.calls = @ \o creates.calls]
                 ELSE [negotiated EXCEPT !.calls = @ \o creates.calls,
                                         !.messenger =
                                             IF called.extensions.ext_debug_utils
                                             THEN 1 ELSE NULL,
                                         !.physical_devices = devices]

(***************************************************************************)
(* surface.rs: Surface::new.                                               *)
(***************************************************************************)
SurfaceFailures == {FailureOf(Create("surface", 0))}

\* Surface::new reporting success when create_surface failed.
Surface_new_ignoring_failure(fail) ==
    LET created == try_calls(<<Create("surface", 0)>>, fail, 1)
    IN  [result |-> "ok", calls |-> created.calls]

\* Lines 15-20.
Surface_new(fail) ==
    LET created == try_calls(<<Create("surface", 0)>>, fail, 1)
    IN  [result |-> IF created.failed THEN "DriverError" ELSE "ok", calls |-> created.calls]

(***************************************************************************)
(* device.rs: Device::new with the callback of initialize.                 *)
(***************************************************************************)
\* Lines 300-304: Properties, MemoryProperties, QueueFamilyProperties and
\* Features; none of these can fail.
device_queries ==
    <<Query("get_physical_device_properties2", 0),
      Query("get_physical_device_memory_properties2", 0),
      Query("get_physical_device_queue_family_properties2", 0),
      Query("get_physical_device_features2", 0)>>

\* Lines 234-247: the presentation-support queries in the order they are
\* made; a query the driver fails is not ok.
RECURSIVE surface_support_calls(_, _)
surface_support_calls(properties, i) ==
    IF i >= Len(properties) THEN <<>>
    ELSE (IF i \in surface_support_queries(properties, 0, 0)
          THEN <<[Query("get_physical_device_surface_support", i)
                    EXCEPT !.ok = properties[i + 1].surface_support # None]>>
          ELSE <<>>)
         \o surface_support_calls(properties, i + 1)

\* Lines 360-362: Queue::new for the direct, the compute and the transfer queue.
queue_calls(queues) ==
    <<Query("get_device_queue", queues.direct),
      Query("get_device_queue", queues.compute),
      Query("get_device_queue", queues.transfer)>>

DeviceFailures ==
    {FailureOf(Query("enumerate_device_extension_properties", 0)),
     FailureOf(Create("device", 0))}

NoDeviceProperties ==
    [result |-> "DriverError", extensions |-> DeviceExtensions_new(<<>>),
     api_version |-> NotQueried, queue_family_properties |-> <<>>, queues |-> NoQueues,
     calls |-> <<>>]

\* Device::new creating the logical device before it calls the callback.
Device_new_create_first(drv_extensions, version, families, fail) ==
    LET supported == try_calls(<<Query("enumerate_device_extension_properties", 0)>>, fail, 1)
        called == device_callback(DeviceExtensions_new(drv_extensions), version)
        queues == Device_new_queues(families)
        created == try_calls(<<Create("device", 0)>>, fail, 1)
        queried == [NoDeviceProperties EXCEPT
                        !.result = called.result,
                        !.extensions = called.extensions,
                        !.api_version = [state |-> "queried", value |-> Some(version)],
                        !.queue_family_properties = families,
                        !.calls = supported.calls \o device_queries \o created.calls
                                  \o <<Callback("Device::new")>>]
    IN  IF supported.failed THEN [NoDeviceProperties EXCEPT !.calls = supported.calls]
        ELSE IF created.failed THEN [queried EXCEPT !.result = "DriverError"]
        ELSE IF called.result # "ok" THEN queried
        ELSE IF queues.result = "error"
        THEN [queried EXCEPT !.result = "NoSuitableQueueFamily", !.queues = queues,
                             !.calls = @ \o surface_support_calls(families, 0)]
        ELSE [queried EXCEPT !.queues = queues,
                             !.calls = @ \o surface_support_calls(families, 0)
                                         \o queue_calls(queues)]

\* Device::new, lines 292-388: what it returns, its locals and the calls it made.
Device_new(drv_extensions, version, families, fail) ==
    LET supported == try_calls(<<Query("enumerate_device_extension_properties", 0)>>, fail, 1)
        called == device_callback(DeviceExtensions_new(drv_extensions), version)
        queues == Device_new_queues(families)
        created == try_calls(<<Create("device", 0)>>, fail, 1)
        queried == [NoDeviceProperties EXCEPT
                        !.result = called.result,
                        !.extensions = called.extensions,
                        !.api_version = [state |-> "queried", value |-> Some(version)],
                        !.queue_family_properties = families,
                        !.calls = supported.calls \o device_queries
                                  \o <<Callback("Device::new")>>]
    IN  IF supported.failed THEN [NoDeviceProperties EXCEPT !.calls = supported.calls]
        ELSE IF called.result # "ok" THEN queried
        ELSE IF queues.result = "error"
        THEN [queried EXCEPT !.result = "NoSuitableQueueFamily", !.queues = queues,
                             !.calls = @ \o surface_support_calls(families, 0)]
        ELSE IF created.failed
        THEN [queried EXCEPT !.result = "DriverError", !.queues = queues,
                             !.calls = @ \o surface_support_calls(families, 0)
                                         \o created.calls]
        ELSE [queried EXCEPT !.queues = queues,
                             !.calls = @ \o surface_support_calls(families, 0)
                                         \o created.calls \o queue_calls(queues)]

(***************************************************************************)
(* renderer/mod.rs: the steps of initialize, and of a host that goes       *)
(* through the same steps.                                                 *)
(***************************************************************************)
InitInitialize ==
    /\ pc = "Instance::new" /\ error = NoError
    /\ instance_version = NotQueried /\ api_version = NotQueried
    /\ IdleCaps /\ IdlePhys /\ IdleQueues /\ IdleFormats /\ IdleLife

\* The state of the Arcs, the calls and the messenger a step works on.
Owned(log, messenger) == [strong |-> strong, calls |-> log, messenger |-> messenger]

\* Instance::new (instance.rs lines 209-264); then is the step of the host
\* that follows.
InstanceNewFrom(unwraps, then, layerLists, extensionLists, callbacks, deviceLists) ==
    /\ pc = "Instance::new"
    /\ \E drv_layers \in layerLists, drv_extensions \in extensionLists,
          cb \in callbacks, devices \in deviceLists,
          fail \in {NoFailure} \cup InstanceFailures :
         \E r \in {Instance_new(drv_layers, drv_extensions, cb, devices, fail)} :
             /\ layers' = r.layers
             /\ extensions' = r.extensions
             /\ instance_version' = r.instance_version
             /\ physical_devices' = r.physical_devices
             /\ debug_utils_messenger' = r.messenger
             /\ IF r.result = "ok"
                THEN /\ strong' = Constructed("Instance")
                     /\ held' = {"Instance"}
                     /\ calls' = calls \o r.calls
                     /\ pc' = then /\ error' = NoError
                ELSE Failed(unwraps, r.result, "Instance::new",
                            Owned(calls \o r.calls, r.messenger))
    /\ UNCHANGED <<device_extensions, call, physical_device, queuevars, formatvars, api_version>>

\* Surface::new(instance.clone(), window) (renderer/mod.rs line 35).
SurfaceNewFrom(unwraps) ==
    /\ pc = "Surface::new"
    /\ \E fail \in {NoFailure} \cup SurfaceFailures :
         \E r \in {Surface_new(fail)} :
             IF r.result = "ok"
             THEN /\ strong' = Constructed("Surface")
                  /\ held' = held \cup {"Surface"}
                  /\ calls' = calls \o r.calls
                  /\ pc' = "Device::new" /\ error' = NoError
             ELSE Failed(unwraps, r.result, "Surface::new",
                         Owned(calls \o r.calls, debug_utils_messenger))
    /\ UNCHANGED <<capvars, physvars, queuevars, formatvars, instance_version, api_version,
                   debug_utils_messenger>>

\* renderer/mod.rs lines 37-64: find_optimal_physical_device, then Device::new
\* (device.rs lines 292-388) with the callback of initialize.
DeviceNewFrom(unwraps, extensionLists, versions, familyLists) ==
    /\ pc = "Device::new"
    /\ LET selected == find_optimal_physical_device(physical_devices)
       IN  /\ physical_device' = selected
           /\ IF selected.state = "panic"
              THEN /\ Failed(unwraps, "panic", "find_optimal_physical_device",
                             Owned(calls, debug_utils_messenger))
                   /\ UNCHANGED <<device_extensions, api_version, queuevars>>
              ELSE \E drv_extensions \in extensionLists, version \in versions,
                      families \in familyLists, fail \in {NoFailure} \cup DeviceFailures :
                     \E r \in {Device_new(drv_extensions, version, families, fail)} :
                         /\ device_extensions' = r.extensions
                         /\ api_version' = r.api_version
                         /\ queue_family_properties' = r.queue_family_properties
                         /\ device_queues' = r.queues
                         /\ IF r.result = "ok"
                            THEN /\ strong' = Constructed("Device")
                                 /\ held' = held \cup {"Device"}
                                 /\ calls' = calls \o r.calls
                                 /\ pc' = "Swapchain::new" /\ error' = NoError
                            ELSE Failed(unwraps, r.result, "Device::new",
                                        Owned(calls \o r.calls, debug_utils_messenger))
    /\ UNCHANGED <<layers, extensions, call, physical_devices, formatvars, instance_version,
                   debug_utils_messenger>>

(***************************************************************************)
(* Spec: one run of initialize.                                            *)
(***************************************************************************)
InstanceNew ==
    InstanceNewFrom(TRUE, "Surface::new", EnumeratedLayers, EnumeratedInstanceExtensions,
                    {InitializeCallback(reported) :
                        reported \in {None} \cup {Some(v) : v \in Versions}},
                    EnumeratedDevices)

SurfaceNew == SurfaceNewFrom(TRUE)

DeviceNew ==
    DeviceNewFrom(TRUE, EnumeratedDeviceExtensions, Versions, EnumeratedQueueFamilies)

\* Swapchain::new (swapchain.rs lines 162-219) as line 66 calls it.
SwapchainNew == SwapchainNewFrom(TRUE, {TRUE}, EnumeratedFormats, EnumeratedPresentModes)

Next == InstanceNew \/ SurfaceNew \/ DeviceNew \/ SwapchainNew

Spec == InitInitialize /\ [][Next]_vars

\* Whether version major.minor is below 1.1.
Below_1_1(major, minor) == major < 1 \/ (major = 1 /\ minor < 1)

\* The major.minor.patch a driver meant by a version word.
ReportedAs(version, major, minor) ==
    \E patch \in 0..MaxPatch : version = make_api_version(0, major, minor, patch)

\* C5 as claimed: once the instance callback has read the driver's version (a
\* missing one counting as 1.0), instance creation fails with a version error
\* exactly when that version is below 1.1; no version at or above 1.1 (1.1,
\* 1.2, 2.0) is rejected.
C5_InstanceVersionFloor ==
    instance_version.state = "queried" =>
        \A major \in 0..MaxMajor, minor \in 0..MaxMinor :
            ReportedAs(unwrap_or(instance_version.value, make_api_version(0, 1, 0, 0)),
                       major, minor)
            => ((error = [kind |-> "VersionUnsupported", at |-> "Instance::new"])
                    <=> Below_1_1(major, minor))

\* C6 as claimed: once the device callback has read the selected device's
\* api_version, device creation fails with a version error exactly when that
\* version is below 1.1, judged on its major and its minor component.
C6_DeviceVersionFloor ==
    api_version.state = "queried" =>
        \A major \in 0..MaxMajor, minor \in 0..MaxMinor :
            ReportedAs(api_version.value[1], major, minor)
            => ((error = [kind |-> "VersionUnsupported", at |-> "Device::new"])
                    <=> Below_1_1(major, minor))

\* The first call of each step of initialize, and the number of the step.
FirstCall(step) ==
    CASE step = 1 -> "Entry::load"
      [] step = 2 -> "surface"
      [] step = 3 -> "enumerate_device_extension_properties"
      [] step = 4 -> "get_physical_device_surface_capabilities2"

StepOf(at) ==
    CASE at = "Instance::new" -> 1
      [] at = "Surface::new" -> 2
      [] at \in {"Device::new", "find_optimal_physical_device"} -> 3
      [] at = "Swapchain::new" -> 4
      [] OTHER -> 5

\* Step number step made a call / its handle was created.
Ran(log, step) == \E i \in 1..Len(log) : log[i].what = FirstCall(step)

HandleOf(step) ==
    CASE step = 1 -> "instance" [] step = 2 -> "surface"
      [] step = 3 -> "device" [] step = 4 -> "swapchain"

ComponentOf(step) ==
    CASE step = 1 -> "Instance" [] step = 2 -> "Surface"
      [] step = 3 -> "Device" [] step = 4 -> "Swapchain"

\* C19: Device::new calls the callback after the property and feature
\* queries and before the queue families are classified; when the callback
\* fails or no direct family qualifies, Device::new returns that error and
\* create_device was never called: there is no logical device and no queue.
C19_NoPartialDevice ==
    /\ \A c \in 1..Len(calls) :
         calls[c] = Callback("Device::new") =>
            /\ \A q \in 1..Len(device_queries) :
                 \E i \in 1..(c - 1) : calls[i] = device_queries[q]
            /\ \A i \in 1..(c - 1) :
                 calls[i].what \notin {"get_physical_device_surface_support", "device",
                                       "get_device_queue"}
    /\ \A i \in 1..Len(calls) :
         calls[i].what \in {"get_physical_device_surface_support", "device"}
         => \E c \in 1..(i - 1) : calls[c] = Callback("Device::new")
    /\ (/\ error.at = "Device::new"
        /\ error.kind \in {"VersionUnsupported", "panic", "NoSuitableQueueFamily"})
       => /\ \A i \in 1..Len(calls) : calls[i].what \notin {"device", "get_device_queue"}
          /\ strong["Device"] = 0 /\ "Device" \notin held

\* C19 witness: the callback returned Ok, the only combined family cannot
\* present, and Device::new failed for want of a direct family.
C19_Witness ==
    /\ error = [kind |-> "NoSuitableQueueFamily", at |-> "Device::new"]
    /\ \E c \in 1..Len(calls) : calls[c] = Callback("Device::new")
    /\ \E i \in 1..Len(calls) : calls[i] = Query("get_physical_device_surface_support", 0)
    /\ device_extensions.khr_swapchain

\* C20: initialize goes through Instance, Surface, Device, Swapchain in this
\* order, each step starting only when the one before returned its handle; it
\* returns the four handles exactly when all four steps succeeded; a failed
\* step ends the run: no later step makes a call and nothing is returned.
C20_Sequencing ==
    /\ [](/\ (pc = "done") <=> (held = Components)
          /\ pc = "done" =>
                \A step \in 1..4 : Created(calls, HandleOf(step)) = {0}
          /\ (pc = "failed") <=> (error # NoError)
          /\ pc = "failed" =>
                /\ held = {}
                /\ \A step \in 1..4 : step > StepOf(error.at) => ~Ran(calls, step)
          /\ \A step \in 2..4 :
                Ran(calls, step) => Created(calls, HandleOf(step - 1)) = {0})
    /\ [][/\ pc \notin {"failed", "done"}
          /\ pc' # pc
          /\ pc' # "failed" =>
                /\ <<pc, pc'>> \in {<<"Instance::new", "Surface::new">>,
                                   <<"Surface::new", "Device::new">>,
                                   <<"Device::new", "Swapchain::new">>,
                                   <<"Swapchain::new", "done">>}
                /\ Created(calls', HandleOf(StepOf(pc))) = {0}
                /\ held' = held \cup {ComponentOf(StepOf(pc))}
          /\ pc' = "failed" => StepOf(error'.at) = StepOf(pc)
         ]_vars

\* C20 witness: initialize returned the four handles.
C20_Witness ==
    /\ pc = "done" /\ held = Components
    /\ strong = [c \in Components |->
                    CASE c = "Instance" -> 4 [] c = "Surface" -> 3
                      [] c = "Device" -> 2 [] c = "Swapchain" -> 1]

(***************************************************************************)
(* SpecLife: a host builds the four components as initialize does, with    *)
(* the callback of initialize or one that also enables the debug-utils     *)
(* extension, and then releases the four Arcs it was given in any order.   *)
(***************************************************************************)
Release(c) == [op |-> "release", what |-> c, arg |-> 0, ok |-> TRUE]

\* drop(arc) by the host: the last use of one of the Arcs it was given.
HostRelease(c) ==
    /\ pc = "done" /\ c \in held
    /\ \E st \in {Arc_drop(c, Owned(Append(calls, Release(c)), debug_utils_messenger))} :
            strong' = st.strong /\ calls' = st.calls
    /\ held' = held \ {c}
    /\ UNCHANGED <<capvars, physvars, queuevars, formatvars, initvars, debug_utils_messenger>>

LifeInstanceNew ==
    InstanceNewFrom(TRUE, "Surface::new", {LayerNames}, {InstanceExtensionNames},
                    {InitializeCallback(Some(make_api_version(0, 1, 1, 0))),
                     HostCallback(<<DebugUtils_name, GetSurfaceCapabilities2_name>>, "ok")},
                    EnumeratedDevices)

LifeDeviceNew ==
    DeviceNewFrom(TRUE, {DeviceExtensionNames}, {make_api_version(0, 1, 1, 0)},
                  EnumeratedQueueFamilies)

NextLife ==
    \/ LifeInstanceNew
    \/ SurfaceNew
    \/ LifeDeviceNew
    \/ SwapchainNew
    \/ \E c \in Components : HostRelease(c)

SpecLife == InitInitialize /\ [][NextLife]_vars

\* The kinds of handle a handle of kind what is created from.
DependsOn(what) ==
    CASE what = "debug_utils_messenger" -> {"instance"}
      [] what = "surface" -> {"instance"}
      [] what = "device" -> {"instance"}
      [] what = "render_pass" -> {"device"}
      [] what = "swapchain" -> {"device", "surface"}
      [] what = "image_view" -> {"device", "swapchain"}
      [] what = "framebuffer" -> {"device", "image_view", "render_pass"}
      [] OTHER -> {}

\* C16: after a successful construction of instance, surface, device and
\* swapchain, in whatever order the host releases its four Arcs, no handle
\* is destroyed while a handle created from it is live: the swapchain's
\* handles go before the device, the device and the surface before the
\* instance, the surface after the swapchain.
C16_TeardownOrder ==
    pc = "done" =>
        \A k \in 1..Len(calls) :
            calls[k].op = "destroy" =>
                \A i \in 1..(k - 1) :
                    (/\ calls[i].op = "create" /\ calls[i].ok
                     /\ calls[k].what \in DependsOn(calls[i].what))
                    => \E j \in (i + 1)..(k - 1) :
                         calls[j] = Destroy(calls[i].what, calls[i].arg)

\* Where the host released component c.
ReleasedAt(c) == CHOOSE i \in 1..Len(calls) : calls[i] = Release(c)

\* C16 witness: the host released the instance first, then the surface, then
\* the device and the swapchain last; a messenger existed; the last handle
\* destroyed was the instance.
C16_Witness ==
    /\ pc = "done" /\ held = {}
    /\ debug_utils_messenger # NULL
    /\ ReleasedAt("Instance") < ReleasedAt("Surface")
    /\ ReleasedAt("Surface") < ReleasedAt("Device")
    /\ ReleasedAt("Device") < ReleasedAt("Swapchain")
    /\ calls[Len(calls)] = Destroy("instance", 0)
    /\ \A c \in Components : strong[c] = 0

\* C22: where the log destroys the swapchain, the calls around it are the
\* destruction of every framebuffer, then of every image view, then of the
\* swapchain, then of the render pass; no swapchain image is destroyed; the
\* Swapchain's Arc of the device is released, and the device destroyed if that
\* was the last one, only after these calls.
C22_SwapchainTeardown ==
    /\ \A k \in 1..Len(calls) :
          /\ ~(calls[k].op = "destroy" /\ calls[k].what = "image")
          /\ calls[k] = Destroy("swapchain", 0) =>
                LET n == Cardinality(Created(calls, "framebuffer"))
                IN  /\ Created(calls, "image_view") = 1..n
                    /\ Created(calls, "framebuffer") = 1..n
                    /\ k > 2 * n /\ k < Len(calls)
                    /\ SubSeq(calls, k - 2 * n, k + 1) =
                          [i \in 1..n |-> Destroy("framebuffer", i)]
                          \o [i \in 1..n |-> Destroy("image_view", i)]
                          \o <<Destroy("swapchain", 0), Destroy("render_pass", 0)>>
                    /\ \A j \in 1..Len(calls) : calls[j] = Destroy("device", 0) => j > k + 1
    /\ (\E k \in 1..Len(calls) : calls[k] = Destroy("render_pass", 0))
         <=> (pc = "done" /\ strong["Swapchain"] = 0)
    /\ (pc = "done" /\ strong["Swapchain"] = 1) =>
         strong["Device"] = 1 + Cardinality(held \cap {"Device"})

\* C22 witness: the host released the Arc of a swapchain of two images while
\* it still held the device: the swapchain's six handles are destroyed and
\* the device is not.
C22_Witness ==
    /\ pc = "done" /\ "Device" \in held /\ strong["Swapchain"] = 0
    /\ strong["Device"] = 1
    /\ Len(calls) > 6
    /\ SubSeq(calls, Len(calls) - 5, Len(calls)) =
          <<Destroy("framebuffer", 1), Destroy("framebuffer", 2),
            Destroy("image_view", 1), Destroy("image_view", 2),
            Destroy("swapchain", 0), Destroy("render_pass", 0)>>

(***************************************************************************)
(* SpecInstance: a host calls Instance::new with a callback that           *)
(* try_pushes some extension names, keeps the Instance for a while and     *)
(* releases it.                                                            *)
(***************************************************************************)
HostCallbacks ==
    {HostCallback(names, result) :
        names \in SupportedLists(InstanceExtensionNames, MaxSupported),
        result \in {"ok", "CallbackError"}}

HostInstanceNew ==
    InstanceNewFrom(FALSE, "done", AllLists(LayerNames), AllLists(InstanceExtensionNames),
                    HostCallbacks, EnumeratedDevices)

NextInstance == HostInstanceNew \/ HostRelease("Instance")

SpecInstance == InitInitialize /\ [][NextInstance]_vars

\* The destroy calls made so far, in order.
Destroys == SelectSeq(calls, LAMBDA c : c.op = "destroy")

\* C17: an Instance has a messenger handle exactly when the debug-utils
\* extension was enabled when the callback returned; dropping the Instance
\* destroys the messenger, if there is one, and then the instance, and
\* without a messenger only the instance.
C17_MessengerLifecycle ==
    /\ pc = "done" =>
         /\ (debug_utils_messenger # NULL) <=> extensions.ext_debug_utils
         /\ (debug_utils_messenger # NULL) <=> (DebugUtils_name \in Range(extensions.enabled))
         /\ (debug_utils_messenger # NULL) <=> (Created(calls, "debug_utils_messenger") # {})
    /\ (pc = "done" /\ strong["Instance"] > 0) => Destroys = <<>>
    /\ (pc = "done" /\ strong["Instance"] = 0) =>
         Destroys = IF debug_utils_messenger # NULL
                    THEN <<Destroy("debug_utils_messenger", 0), Destroy("instance", 0)>>
                    ELSE <<Destroy("instance", 0)>>

\* C17 witness: an Instance with a messenger was dropped; the messenger was
\* destroyed and the instance after it.
C17_Witness ==
    /\ pc = "done" /\ strong["Instance"] = 0
    /\ debug_utils_messenger # NULL
    /\ Len(extensions.enabled) = 4
    /\ Destroys = <<Destroy("debug_utils_messenger", 0), Destroy("instance", 0)>>

====
